---------------------------- MODULE Spec2Model ----------------------------
(***************************************************************************)
(* Model of the fake-person generator: FakeInfo (src/fake_info.py) and the  *)
(* town lookup DB (src/db.py).                                              *)
(*                                                                          *)
(* Strings the code slices or measures (birth_date, cpr, phone_number, the  *)
(* address fields) are sequences of one-character strings.  The results of  *)
(* random.randint are read from a tape of integers in call order, those of  *)
(* random.choice from a tape of 1-based positions in the population, the    *)
(* way the tests stub them with side_effect lists.                          *)
(***************************************************************************)
EXTENDS Integers, Sequences, FiniteSets, TLC

VARIABLES
    pc,            \* position in FakeInfo.__init__
    data,          \* what json.load gave the latest _set_full_name_and_gender
    first_name,    \* self.first_name
    last_name,     \* self.last_name
    gender,        \* self.gender
    birth_date,    \* self.birth_date
    cpr,           \* self.cpr
    address,       \* self.address
    phone_number,  \* self.phone_number
    town_count,    \* DB._town_count (class attribute)
    count_queries, \* executions of SELECT COUNT(*) in this process
    count_writes,  \* assignments to DB._town_count in this process
    town_calls,    \* calls of get_random_town made by this construction
    town_data,     \* what the latest get_random_town call returned
    drawn,         \* the draws the latest step read: [ri, ch]
    result,        \* what get_fake_person returned to its caller
    bulk_pc,       \* position in get_fake_persons
    requested,     \* get_fake_persons: amount as passed
    amount,        \* get_fake_persons: amount after the two ifs
    bulk_info,     \* get_fake_persons: the list being filled
    returned,      \* what get_fake_persons returned to its caller
    seed,          \* which stubbed draws the running bulk call reads
    threads,       \* the FakeInfo() each worker thread is constructing
    http_pc,       \* position in the GET /person handler
    http_n,        \* the query parameter n of the request being served
    response,      \* what the latest request was answered with
    table,         \* the rows of the postal_code table
    direct_db,     \* the DB object a direct caller constructed and used
    random_text    \* the latest direct call of _get_random_text

attrs == <<first_name, last_name, gender, birth_date, cpr, address,
           phone_number>>

bulk == <<bulk_pc, requested, amount, bulk_info, returned, seed>>

db_log == <<count_queries, count_writes>>

\* the object a direct caller constructs, and what it drew and got
single == <<pc, data, attrs, town_calls, town_data, drawn, result>>

http == <<http_pc, http_n, response>>

\* the town table, and the direct calls of DB and _get_random_text
direct == <<table, direct_db, random_text>>

vars == <<pc, data, attrs, town_count, db_log, town_calls, town_data, drawn,
          result, bulk, threads, http, direct>>

None == "None"          \* a name attribute not set yet
NoText == <<>>           \* a text attribute not set yet
NoDict == [k \in {} |-> <<>>]   \* {} (self.address before its first key)
NoDraws == [ri |-> <<>>, ch |-> <<>>]

\* the two worker threads that serve requests side by side
Threads == {"t1", "t2"}

\* a worker that is not constructing anything
IdleThread ==
    [pc |-> "idle", stub |-> 0,
     first_name |-> None, last_name |-> None, gender |-> None,
     birth_date |-> NoText, cpr |-> NoText, address |-> NoDict,
     phone_number |-> NoText, counted |-> <<>>,
     town_calls |-> 0, town_data |-> <<>>]

NoThreads == threads = [t \in Threads |-> IdleThread]

\* the module is used as a library: no server is running
NoRequest == http_pc = "idle" /\ http_n = 0 /\ response = <<>>

\* uvicorn.run(app): the server waits for its first request
Listening == http_pc = "listening" /\ http_n = 0 /\ response = <<>>

----------------------------------------------------------------------------
(* Bounds of the model and constants of the program.                        *)

CurrentYear == 2026      \* datetime.now().year
NYearSamples == 3        \* years tried where the whole range is too wide
NMonthSamples == 2       \* months tried where the whole range is too wide

MinYear == 1900
GENDER_FEMININE == "female"
GENDER_MASCULINE == "male"

\* data/person-names.json: {"persons": [{firstName, lastName, gender}, ...]}
PersonNames ==
    << [firstName |-> "Annemette", lastName |-> "Nilsson", gender |-> "female"],
       [firstName |-> "Mads",      lastName |-> "Jensen",  gender |-> "male"],
       [firstName |-> "Freja",     lastName |-> "Jensen",  gender |-> "female"] >>

\* n values spread evenly over a..b, both ends included.
Sample(a, b, n) ==
    IF n <= 1 \/ b <= a THEN {a}
    ELSE {a + ((i * (b - a)) \div (n - 1)) : i \in 0..(n - 1)}

----------------------------------------------------------------------------
(* Text: str(int), zero padding, int(text).                                 *)

Digits == <<"0", "1", "2", "3", "4", "5", "6", "7", "8", "9">>

DigitChar(d) == Digits[d + 1]

IsDigit(c) == \E d \in 0..9 : Digits[d + 1] = c

DigitVal(c) == CHOOSE d \in 0..9 : Digits[d + 1] = c

\* str(n) for n >= 0
RECURSIVE IntToStr(_)
IntToStr(n) ==
    IF n < 10 THEN <<DigitChar(n)>>
    ELSE IntToStr(n \div 10) \o <<DigitChar(n % 10)>>

\* the %d / %m / %y / %Y conversions: at least w digits, zeros on the left
RECURSIVE ZeroPad(_, _)
ZeroPad(s, w) == IF Len(s) >= w THEN s ELSE ZeroPad(<<"0">> \o s, w)

\* int(s) for a text of digits
RECURSIVE StrToInt(_)
StrToInt(s) ==
    IF Len(s) = 0 THEN 0
    ELSE 10 * StrToInt(SubSeq(s, 1, Len(s) - 1)) + DigitVal(s[Len(s)])

\* ''.join([str(x) for x in ri[from .. from + n - 1]])
RECURSIVE JoinInts(_, _, _)
JoinInts(ri, from, n) ==
    IF n <= 0 THEN <<>>
    ELSE IntToStr(ri[from]) \o JoinInts(ri, from + 1, n - 1)

IsNumeric(s) == Len(s) > 0 /\ \A i \in 1..Len(s) : IsDigit(s[i])

----------------------------------------------------------------------------
(* FakeInfo._set_birth_date                                                 *)

DaysFor_Leap(month) ==
    IF month \in {1, 3, 5, 7, 8, 10, 12} THEN 31
    ELSE IF month \in {4, 6, 9, 11} THEN 30
    ELSE 29

\* the upper bound of the day draw for a month
DaysFor(month) ==
    IF month \in {1, 3, 5, 7, 8, 10, 12} THEN 31
    ELSE IF month \in {4, 6, 9, 11} THEN 30
    ELSE 28

\* date(y, m, d) exists in the proleptic Gregorian calendar
IsLeap(y) == (y % 4 = 0) /\ ((y % 100 # 0) \/ (y % 400 = 0))

DaysInMonth(y, m) ==
    IF m \in {1, 3, 5, 7, 8, 10, 12} THEN 31
    ELSE IF m \in {4, 6, 9, 11} THEN 30
    ELSE IF IsLeap(y) THEN 29 ELSE 28

ValidDate(y, m, d) ==
    /\ y \in 1..9999
    /\ m \in 1..12
    /\ d \in 1..DaysInMonth(y, m)

StrftimeYmd_NoPad(y, m, d) ==
    IntToStr(y) \o <<"-">> \o IntToStr(m) \o <<"-">> \o IntToStr(d)

\* date(y, m, d).strftime('%Y-%m-%d')
StrftimeYmd(y, m, d) ==
    ZeroPad(IntToStr(y), 4) \o <<"-">> \o ZeroPad(IntToStr(m), 2)
        \o <<"-">> \o ZeroPad(IntToStr(d), 2)

\* datetime.strptime(s, '%Y-%m-%d')
StrptimeYmd(s) ==
    [year  |-> StrToInt(SubSeq(s, 1, 4)),
     month |-> StrToInt(SubSeq(s, 6, 7)),
     day   |-> StrToInt(SubSeq(s, 9, 10))]

\* the three randint ranges of _set_birth_date, the third depending on the month
BirthDraws(Years, Months, Days) ==
    {<<y, m, d>> : y \in Years, m \in Months, d \in Days}

BirthDrawsInRange(ri) ==
    /\ ri[1] \in MinYear..CurrentYear
    /\ ri[2] \in 1..12
    /\ ri[3] \in 1..DaysFor(ri[2])

\* the text _set_birth_date stores, from its draws (year, month, day)
BirthDateOf(ri) == StrftimeYmd(ri[1], ri[2], ri[3])

----------------------------------------------------------------------------
(* FakeInfo._set_cpr                                                        *)

FinalDigit_FemaleOnly(g, d) ==
    IF g = GENDER_FEMININE /\ d % 2 = 1 THEN (d + 1) % 10 ELSE d

FinalDigit_Decrement(g, d) ==
    IF g = GENDER_FEMININE /\ d % 2 = 1 THEN (d - 1) % 10
    ELSE IF g = GENDER_MASCULINE /\ d % 2 = 0 THEN (d - 1) % 10
    ELSE d

FinalDigit_NoWrap(g, d) ==
    IF g = GENDER_FEMININE /\ d % 2 = 1 THEN d + 1
    ELSE IF g = GENDER_MASCULINE /\ d % 2 = 0 THEN d + 1
    ELSE d

\* the parity adjustment of the drawn final digit
FinalDigit(g, d) ==
    IF g = GENDER_FEMININE /\ d % 2 = 1 THEN (d + 1) % 10
    ELSE IF g = GENDER_MASCULINE /\ d % 2 = 0 THEN (d + 1) % 10
    ELSE d

DatePart_MonthFirst(bd) ==
    LET date_obj == StrptimeYmd(bd)
        dd == ZeroPad(IntToStr(date_obj.day), 2)
        mm == ZeroPad(IntToStr(date_obj.month), 2)
        yy == ZeroPad(IntToStr(date_obj.year % 100), 2)
    IN  mm \o dd \o yy

\* dd, mm, yy: strptime, then strftime('%d'), ('%m'), ('%y')
DatePart(bd) ==
    LET date_obj == StrptimeYmd(bd)
        dd == ZeroPad(IntToStr(date_obj.day), 2)
        mm == ZeroPad(IntToStr(date_obj.month), 2)
        yy == ZeroPad(IntToStr(date_obj.year % 100), 2)
    IN  dd \o mm \o yy

MiddleDigits_FirstThree(ri) == JoinInts(ri, 1, 3)

\* ''.join([str(random.randint(0, 9)) for _ in range(3)]): draws 2, 3 and 4
MiddleDigits(ri) == JoinInts(ri, 2, 3)

\* the four randint(0, 9) calls of _set_cpr
CprDraws(Ds) == {<<d, a, b, c>> : d \in Ds, a \in Ds, b \in Ds, c \in Ds}

CprDrawsInRange(ri) == \A k \in 1..4 : ri[k] \in 0..9

\* f"{dd}{mm}{yy}{middle_digits}{final_digit}"
CprOf(bd, g, ri) ==
    DatePart(bd) \o MiddleDigits(ri) \o IntToStr(FinalDigit(g, ri[1]))

----------------------------------------------------------------------------
(* FakeInfo._get_random_text                                                *)

\* list(' abc...zABC...Z') extended by list('æøåÆØÅ')
Latin ==
    << " ",
       "a", "b", "c", "d", "e", "f", "g", "h", "i", "j", "k", "l", "m",
       "n", "o", "p", "q", "r", "s", "t", "u", "v", "w", "x", "y", "z",
       "A", "B", "C", "D", "E", "F", "G", "H", "I", "J", "K", "L", "M",
       "N", "O", "P", "Q", "R", "S", "T", "U", "V", "W", "X", "Y", "Z" >>

Danish == << "æ", "ø", "å", "Æ", "Ø", "Å" >>

ValidChars(include_danish) == IF include_danish THEN Latin \o Danish ELSE Latin

NonSpace_Unfiltered(include_danish) == ValidChars(include_danish)

\* [c for c in valid_chars if c != ' ']
NonSpace(include_danish) ==
    SelectSeq(ValidChars(include_danish), LAMBDA c : c # " ")

\* choices a call of _get_random_text(length) makes: one, then length - 1
TextChoices(length) == IF length >= 1 THEN length ELSE 1

RandomText_EmptyBelowOne(length, include_danish, ch, from) ==
    IF length < 1 THEN <<>>
    ELSE <<NonSpace(include_danish)[ch[from + 1]]>> \o
         [k \in 1..(length - 1) |->
             ValidChars(include_danish)[ch[from + 1 + k]]]

\* the text, from the choice tape ch read from position from + 1 on
RandomText(length, include_danish, ch, from) ==
    <<NonSpace(include_danish)[ch[from + 1]]>> \o
    [k \in 1..(TextChoices(length) - 1) |->
        ValidChars(include_danish)[ch[from + 1 + k]]]

TextChoicesInRange(length, include_danish, ch, from) ==
    /\ ch[from + 1] \in 1..Len(NonSpace(include_danish))
    /\ \A k \in 1..(TextChoices(length) - 1) :
          ch[from + 1 + k] \in 1..Len(ValidChars(include_danish))

----------------------------------------------------------------------------
(* DB: the postal_code table and the cached row count                       *)

\* rows of table postal_code, in the order LIMIT offset, 1 walks them
TownTable ==
    << [postal_code |-> "1000", town_name |-> "København K"],
       [postal_code |-> "2100", town_name |-> "København Ø"],
       [postal_code |-> "8000", town_name |-> "Aarhus C"] >>

\* DB._town_count before the first COUNT query
NoCount == -1

\* DB.__init__ after a successful _connect: the COUNT query runs only while
\* DB._town_count is None
CountAfterInit(count, rows) == IF count = NoCount THEN Len(rows) ELSE count

\* no DB object constructed by a direct caller
NoDb == [pc |-> "none", offset |-> <<>>, result |-> <<>>]

DbOutcome_CachesOnFailure(count, rows, store) ==
    IF ~store.up
    THEN [pc |-> "raised", count |-> count, queries |-> 0, writes |-> 0]
    ELSE IF count # NoCount
    THEN [pc |-> "connected", count |-> count, queries |-> 0, writes |-> 0]
    ELSE IF ~store.count_ok
    THEN [pc |-> "raised", count |-> 0, queries |-> 1, writes |-> 1]
    ELSE [pc |-> "connected", count |-> Len(rows), queries |-> 1,
          writes |-> 1]

\* DB.__init__: what becomes of the object and of DB._town_count, and how
\* many COUNT queries were sent and how many results were stored
DbOutcome(count, rows, store) ==
    IF ~store.up
    THEN \* _connect raises
         [pc |-> "raised", count |-> count, queries |-> 0, writes |-> 0]
    ELSE IF count # NoCount
    THEN [pc |-> "connected", count |-> count, queries |-> 0, writes |-> 0]
    ELSE IF ~store.count_ok
    THEN \* cursor.execute raises before DB._town_count is assigned
         [pc |-> "raised", count |-> count, queries |-> 1, writes |-> 0]
    ELSE [pc |-> "connected", count |-> Len(rows), queries |-> 1,
          writes |-> 1]

\* a direct call of _get_random_text: none made yet
NoTextCall == [pc |-> "none", length |-> 0, include_danish |-> TRUE,
               text |-> NoText]

\* the table holds the towns; nobody called DB or _get_random_text directly
NoDirect == table = TownTable /\ direct_db = NoDb /\ random_text = NoTextCall

OffsetInRange_UpToCount(count, offset) == offset \in 0..count

\* random.randint(0, DB._town_count - 1) accepts the draw
OffsetInRange(count, offset) == offset \in 0..(count - 1)

\* SELECT ... LIMIT offset, 1; fetchone(): the row at the offset, if any
FetchTown(rows, offset) ==
    IF offset + 1 \in 1..Len(rows) THEN <<rows[offset + 1]>> ELSE <<>>

----------------------------------------------------------------------------
(* FakeInfo._set_address                                                    *)

StreetLength == 40

UpperLetters ==
    << "A", "B", "C", "D", "E", "F", "G", "H", "I", "J", "K", "L", "M",
       "N", "O", "P", "Q", "R", "S", "T", "U", "V", "W", "X", "Y", "Z" >>

\* 'abcdefghijklmnopqrstuvwxyzøæå'
LowerLetters ==
    << "a", "b", "c", "d", "e", "f", "g", "h", "i", "j", "k", "l", "m",
       "n", "o", "p", "q", "r", "s", "t", "u", "v", "w", "x", "y", "z",
       "ø", "æ", "å" >>

NumberOf_FlagBelowTwo(ri, ch) ==
    IF ri[2] < 2
    THEN IntToStr(ri[1]) \o <<UpperLetters[ch[StreetLength + 1]]>>
    ELSE IntToStr(ri[1])

\* address['number']: draws ri[1], ri[2] and, under the flag, one choice
NumberOf(ri, ch) ==
    IF ri[2] < 3
    THEN IntToStr(ri[1]) \o <<UpperLetters[ch[StreetLength + 1]]>>
    ELSE IntToStr(ri[1])

NumberChoices(ri) == IF ri[2] < 3 THEN 1 ELSE 0

FloorOf_FlagBelowThree(ri) ==
    IF ri[3] < 3 THEN <<"s", "t">> ELSE IntToStr(ri[4])

\* address['floor']: draw ri[3] and, unless it gives 'st', ri[4]
FloorOf(ri) == IF ri[3] < 4 THEN <<"s", "t">> ELSE IntToStr(ri[4])

FloorDraws(ri) == IF ri[3] < 4 THEN 1 ELSE 2

DoorOf_ShiftedBins(door_type, dn, dl) ==
    IF door_type <= 8 THEN <<"t", "h">>
    ELSE IF door_type <= 15 THEN <<"t", "v">>
    ELSE IF door_type <= 17 THEN <<"m", "f">>
    ELSE IF door_type <= 19 THEN IntToStr(dn)
    ELSE <<LowerLetters[dl], "-">> \o IntToStr(dn)

\* address['door'] from door_type, the next randint dn and the next choice dl
DoorOf(door_type, dn, dl) ==
    IF door_type < 8 THEN <<"t", "h">>
    ELSE IF door_type < 15 THEN <<"t", "v">>
    ELSE IF door_type < 17 THEN <<"m", "f">>
    ELSE IF door_type < 19 THEN IntToStr(dn)
    ELSE <<LowerLetters[dl]>>
         \o (IF door_type = 20 THEN <<"-">> ELSE <<>>)
         \o IntToStr(dn)

DoorDraws_Always(door_type) == 1

\* randint calls the door makes after door_type
DoorDraws(door_type) == IF door_type < 17 THEN 0 ELSE 1

DoorChoices(door_type) == IF door_type < 19 THEN 0 ELSE 1

\* One run of _set_address up to the DB() call, reading the randint tape ri
\* and the choice tape ch in call order.
AddressRun(ri, ch) ==
    LET nf == 2 + FloorDraws(ri)           \* randint calls before door_type
        nc == StreetLength + NumberChoices(ri)
        door_type == ri[nf + 1]
        nd == nf + 1 + DoorDraws(door_type)
    IN  [street |-> RandomText(StreetLength, TRUE, ch, 0),
         number |-> NumberOf(ri, ch),
         floor  |-> FloorOf(ri),
         door   |-> DoorOf(door_type, ri[nf + 2], ch[nc + 1]),
         door_type |-> door_type,
         randints |-> nd,
         choices  |-> nc + DoorChoices(door_type),
         in_range |->
            /\ TextChoicesInRange(StreetLength, TRUE, ch, 0)
            /\ ri[1] \in 1..999
            /\ ri[2] \in 1..10
            /\ ri[2] < 3 => ch[StreetLength + 1] \in 1..Len(UpperLetters)
            /\ ri[3] \in 1..10
            /\ ri[3] >= 4 => ri[4] \in 1..99
            /\ door_type \in 1..20
            /\ (door_type >= 17 /\ door_type < 19) => ri[nf + 2] \in 1..50
            /\ door_type >= 19 =>
                  /\ ch[nc + 1] \in 1..Len(LowerLetters)
                  /\ ri[nf + 2] \in 1..999]

\* self.address when the DB() call or the lookup raised
PartialAddress(run) ==
    [street |-> run.street, number |-> run.number,
     floor |-> run.floor, door |-> run.door]

FullAddress_FloorOptional(run, row) ==
    IF run.floor = <<"s", "t">>
    THEN [street |-> run.street, number |-> run.number, door |-> run.door,
          postal_code |-> row.postal_code, town_name |-> row.town_name]
    ELSE [street |-> run.street, number |-> run.number,
          floor |-> run.floor, door |-> run.door,
          postal_code |-> row.postal_code, town_name |-> row.town_name]

FullAddress_FirstTown(run, row) ==
    [street |-> run.street, number |-> run.number,
     floor |-> run.floor, door |-> run.door,
     postal_code |-> row.postal_code,
     town_name |-> TownTable[1].town_name]

\* self.address at the end of _set_address
FullAddress(run, row) ==
    [street |-> run.street, number |-> run.number,
     floor |-> run.floor, door |-> run.door,
     postal_code |-> row.postal_code,
     town_name |-> row.town_name]

----------------------------------------------------------------------------
(* FakeInfo._set_phone                                                      *)

PhoneLength == 8

PHONE_PREFIXES ==
    <<
       <<"2">>, <<"3","0">>, <<"3","1">>, <<"4","0">>, <<"4","1">>,
       <<"4","2">>, <<"5","0">>, <<"5","1">>, <<"5","2">>, <<"5","3">>,
       <<"6","0">>, <<"6","1">>, <<"7","1">>, <<"8","1">>, <<"9","1">>,
       <<"9","2">>, <<"9","3">>, <<"3","4","2">>, <<"3","4","4">>, <<"3","4","5">>,
       <<"3","4","6">>, <<"3","4","7">>, <<"3","4","8">>, <<"3","4","9">>, <<"3","5","6">>,
       <<"3","5","7">>, <<"3","5","9">>, <<"3","6","2">>, <<"3","6","5">>, <<"3","6","6">>,
       <<"3","8","9">>, <<"3","9","8">>, <<"4","3","1">>, <<"4","4","1">>, <<"4","6","2">>,
       <<"4","6","6">>, <<"4","6","8">>, <<"4","7","2">>, <<"4","7","4">>, <<"4","7","6">>,
       <<"4","7","8">>, <<"4","8","5">>, <<"4","8","6">>, <<"4","8","8">>, <<"4","8","9">>,
       <<"4","9","3">>, <<"4","9","4">>, <<"4","9","5">>, <<"4","9","6">>, <<"4","9","8">>,
       <<"4","9","9">>, <<"5","4","2">>, <<"5","4","3">>, <<"5","4","5">>, <<"5","5","1">>,
       <<"5","5","2">>, <<"5","5","6">>, <<"5","7","1">>, <<"5","7","2">>, <<"5","7","3">>,
       <<"5","7","4">>, <<"5","7","7">>, <<"5","7","9">>, <<"5","8","4">>, <<"5","8","6">>,
       <<"5","8","7">>, <<"5","8","9">>, <<"5","9","7">>, <<"5","9","8">>, <<"6","2","7">>,
       <<"6","2","9">>, <<"6","4","1">>, <<"6","4","9">>, <<"6","5","8">>, <<"6","6","2">>,
       <<"6","6","3">>, <<"6","6","4">>, <<"6","6","5">>, <<"6","6","7">>, <<"6","9","2">>,
       <<"6","9","3">>, <<"6","9","4">>, <<"6","9","7">>, <<"7","7","1">>, <<"7","7","2">>,
       <<"7","8","2">>, <<"7","8","3">>, <<"7","8","5">>, <<"7","8","6">>, <<"7","8","8">>,
       <<"7","8","9">>, <<"8","2","6">>, <<"8","2","7">>, <<"8","2","9">> >>

PhoneOf_FixedSuffix(ri, ch) ==
    PHONE_PREFIXES[ch[1]] \o JoinInts(ri, 1, PhoneLength - 2)

\* prefix + suffix: choice ch[1], then 8 - len(prefix) draws of randint(0, 9)
PhoneOf(ri, ch) ==
    LET prefix == PHONE_PREFIXES[ch[1]]
        remaining_digits == PhoneLength - Len(prefix)
    IN  prefix \o JoinInts(ri, 1, remaining_digits)

PhoneDrawsInRange(ri, ch) ==
    /\ ch[1] \in 1..Len(PHONE_PREFIXES)
    /\ \A k \in 1..(PhoneLength - Len(PHONE_PREFIXES[ch[1]])) : ri[k] \in 0..9

----------------------------------------------------------------------------
(* FakeInfo.get_fake_person                                                 *)

PersonDict ==
    [CPR |-> cpr, firstName |-> first_name, lastName |-> last_name,
     gender |-> gender, birthDate |-> birth_date, address |-> address,
     phoneNumber |-> phone_number]

----------------------------------------------------------------------------
(* FakeInfo.get_fake_persons: the clamp                                     *)

MinAmount == 2
MaxAmount == 100

ClampAmount_NoFloor(a) == IF a > MaxAmount THEN MaxAmount ELSE a

\* if amount < 2: amount = 2; if amount > 100: amount = 100
ClampAmount(a) ==
    LET a1 == IF a < MinAmount THEN MinAmount ELSE a
    IN  IF a1 > MaxAmount THEN MaxAmount ELSE a1

----------------------------------------------------------------------------
(* The steps of FakeInfo.__init__.  Each reads its draws from a tape taken  *)
(* from the set it is given; a tape is accepted when every draw on it lies  *)
(* in the range of the call that reads it.                                  *)

NextStep_PhoneBeforeAddress(step) ==
    CASE step = "name" -> "birth"
      [] step = "birth" -> "cpr"
      [] step = "cpr" -> "phone"
      [] step = "phone" -> "address"
      [] step = "address" -> "done"

\* the body of __init__: the step that follows each step
NextStep(step) ==
    CASE step = "name" -> "birth"
      [] step = "birth" -> "cpr"
      [] step = "cpr" -> "address"
      [] step = "address" -> "phone"
      [] step = "phone" -> "done"

\* FakeInfo(): a fresh object enters __init__, called directly or from the
\* loop of get_fake_persons
new_FakeInfo ==
    /\ \/ /\ http_pc = "idle"
          /\ bulk_pc \in {"idle", "returned", "raised"}
          /\ pc \in {"idle", "done", "raised"}
          /\ bulk_pc' = "idle"
          /\ requested' = 0 /\ amount' = 0 /\ seed' = 0
          /\ bulk_info' = <<>> /\ returned' = <<>>
       \/ /\ bulk_pc = "loop"
          /\ pc = "idle"
          /\ Len(bulk_info) < amount
          /\ UNCHANGED bulk
    /\ pc' = "name"
    /\ data' = <<>>
    /\ first_name' = None /\ last_name' = None /\ gender' = None
    /\ birth_date' = NoText /\ cpr' = NoText /\ phone_number' = NoText
    /\ address' = NoDict
    /\ town_calls' = 0
    /\ town_data' = <<>>
    /\ drawn' = NoDraws
    /\ result' = <<>>
    /\ UNCHANGED <<town_count, db_log, threads, http, direct>>

PersonOf_MixedEntries(persons, c) ==
    [firstName |-> persons[c].firstName, lastName |-> persons[c].lastName,
     gender |-> persons[1].gender]

\* person = random.choice(data['persons']), c being the position chosen
PersonOf(persons, c) == persons[c]

\* Files: what open() and json.load() give; Ch: positions random.choice may pick
_set_full_name_and_gender(Files, Ch) ==
    /\ pc = "name"
    /\ \E file \in Files, c \in Ch :
          IF file.readable /\ Len(file.persons) > 0
          THEN /\ c \in 1..Len(file.persons)
               /\ data' = <<file.persons>>
               /\ first_name' = PersonOf(file.persons, c).firstName
               /\ last_name' = PersonOf(file.persons, c).lastName
               /\ gender' = PersonOf(file.persons, c).gender
               /\ drawn' = [ri |-> <<>>, ch |-> <<c>>]
               /\ pc' = NextStep("name")
          ELSE \* open() raises, or random.choice([]) does
               /\ data' = IF file.readable THEN <<file.persons>> ELSE <<>>
               /\ pc' = "raised"
               /\ drawn' = NoDraws
               /\ UNCHANGED <<first_name, last_name, gender>>
    /\ UNCHANGED <<birth_date, cpr, address, phone_number, town_count,
                   db_log, town_calls, town_data, result, bulk, threads, http,
                   direct>>

_set_birth_date(Tapes) ==
    /\ pc = "birth"
    /\ \E ri \in Tapes :
          /\ BirthDrawsInRange(ri)
          /\ drawn' = [ri |-> SubSeq(ri, 1, 3), ch |-> <<>>]
          /\ IF ValidDate(ri[1], ri[2], ri[3])
             THEN birth_date' = BirthDateOf(ri) /\ pc' = NextStep("birth")
             ELSE pc' = "raised" /\ UNCHANGED birth_date
    /\ UNCHANGED <<data, first_name, last_name, gender, cpr, address,
                   phone_number, town_count, db_log, town_calls, town_data,
                   result, bulk, threads, http, direct>>

_set_cpr(Tapes) ==
    /\ pc = "cpr"
    /\ \E ri \in Tapes :
          /\ CprDrawsInRange(ri)
          /\ drawn' = [ri |-> SubSeq(ri, 1, 4), ch |-> <<>>]
          /\ cpr' = CprOf(birth_date, gender, ri)
    /\ pc' = NextStep("cpr")
    /\ UNCHANGED <<data, first_name, last_name, gender, birth_date, address,
                   phone_number, town_count, db_log, town_calls, town_data,
                   result, bulk, threads, http, direct>>

\* Tapes: records [ri, ch]; Dbs: [up, table], the database as DB() finds it
_set_address(Tapes, Dbs) ==
    /\ pc = "address"
    /\ \E t \in Tapes, db \in Dbs :
          LET run == AddressRun(t.ri, t.ch)
              count == CountAfterInit(town_count, table)
              counted == IF town_count = NoCount THEN 1 ELSE 0
              random_offset == t.ri[run.randints + 1]
              fetched == FetchTown(table, random_offset)
              local == [ri |-> SubSeq(t.ri, 1, run.randints),
                        ch |-> SubSeq(t.ch, 1, run.choices)]
          IN  /\ run.in_range
              /\ IF ~db.up
                 THEN \* _connect raises
                      /\ drawn' = local
                      /\ address' = PartialAddress(run)
                      /\ pc' = "raised"
                      /\ UNCHANGED <<town_count, db_log, town_calls,
                                     town_data>>
                 ELSE IF town_count = NoCount /\ ~db.count_ok
                 THEN \* the COUNT query raises
                      /\ drawn' = local
                      /\ address' = PartialAddress(run)
                      /\ pc' = "raised"
                      /\ count_queries' = count_queries + 1
                      /\ UNCHANGED <<town_count, count_writes, town_calls,
                                     town_data>>
                 ELSE IF count < 1
                 THEN \* randint(0, -1) raises
                      /\ drawn' = local
                      /\ address' = PartialAddress(run)
                      /\ pc' = "raised"
                      /\ town_count' = count
                      /\ count_queries' = count_queries + counted
                      /\ count_writes' = count_writes + counted
                      /\ UNCHANGED <<town_calls, town_data>>
                 ELSE /\ OffsetInRange(count, random_offset)
                      /\ drawn' = [local EXCEPT !.ri = @ \o <<random_offset>>]
                      /\ town_count' = count
                      /\ count_queries' = count_queries + counted
                      /\ count_writes' = count_writes + counted
                      /\ town_calls' = town_calls + 1
                      /\ town_data' = fetched
                      /\ IF fetched = <<>>
                         THEN \* town_data is None
                              /\ address' = PartialAddress(run)
                              /\ pc' = "raised"
                         ELSE /\ address' = FullAddress(run, fetched[1])
                              /\ pc' = NextStep("address")
    /\ UNCHANGED <<data, first_name, last_name, gender, birth_date, cpr,
                   phone_number, result, bulk, threads, http, direct>>

_set_phone(Tapes) ==
    /\ pc = "phone"
    /\ \E t \in Tapes :
          /\ PhoneDrawsInRange(t.ri, t.ch)
          /\ drawn' = [ri |-> SubSeq(t.ri, 1,
                                     PhoneLength - Len(PHONE_PREFIXES[t.ch[1]])),
                       ch |-> SubSeq(t.ch, 1, 1)]
          /\ phone_number' = PhoneOf(t.ri, t.ch)
    /\ pc' = NextStep("phone")
    /\ UNCHANGED <<data, first_name, last_name, gender, birth_date, cpr,
                   address, town_count, db_log, town_calls, town_data, result,
                   bulk, threads, http, direct>>

\* a direct caller reads the finished object
get_fake_person ==
    /\ http_pc = "idle"
    /\ pc = "done"
    /\ bulk_pc = "idle"
    /\ result' = <<PersonDict>>
    /\ UNCHANGED <<pc, data, attrs, town_count, db_log, town_calls, town_data,
                   drawn, bulk, threads, http, direct>>

----------------------------------------------------------------------------
(* FakeInfo.get_fake_persons                                                *)

\* the call, up to bulk_info = []; it is made while no object is being built
\* or waits to be read
get_fake_persons(As, Ss) ==
    /\ http_pc = "idle"
    /\ bulk_pc \in {"idle", "returned"}
    /\ pc = "idle"
    /\ \E a \in As, s \in Ss :
          /\ requested' = a
          /\ amount' = ClampAmount(a)
          /\ seed' = s
    /\ bulk_info' = <<>>
    /\ returned' = <<>>
    /\ bulk_pc' = "loop"
    /\ pc' = "idle"
    /\ data' = <<>>
    /\ first_name' = None /\ last_name' = None /\ gender' = None
    /\ birth_date' = NoText /\ cpr' = NoText /\ phone_number' = NoText
    /\ address' = NoDict
    /\ town_calls' = 0
    /\ town_data' = <<>>
    /\ drawn' = NoDraws
    /\ result' = <<>>
    /\ UNCHANGED <<town_count, db_log, threads, http, direct>>

\* bulk_info.append(fake.get_fake_person())
bulk_append ==
    /\ bulk_pc = "loop"
    /\ pc = "done"
    /\ bulk_info' = Append(bulk_info, PersonDict)
    /\ pc' = "idle"
    /\ UNCHANGED <<data, attrs, town_count, db_log, town_calls, town_data,
                   drawn, result, bulk_pc, requested, amount, returned, seed,
                   threads, http, direct>>

bulk_raise_ReturnsPartial ==
    /\ bulk_pc = "loop"
    /\ pc = "raised"
    /\ bulk_pc' = "raised"
    /\ returned' = <<bulk_info>>
    /\ UNCHANGED <<pc, data, attrs, town_count, db_log, town_calls, town_data,
                   drawn, result, requested, amount, bulk_info, seed,
                   threads, http, direct>>

\* FakeInfo() raised inside the loop: the call ends without a value
bulk_raise ==
    /\ bulk_pc = "loop"
    /\ pc = "raised"
    /\ bulk_pc' = "raised"
    /\ UNCHANGED <<pc, data, attrs, town_count, db_log, town_calls, town_data,
                   drawn, result, requested, amount, bulk_info, returned, seed,
                   threads, http, direct>>

\* range(amount) is used up: return bulk_info
bulk_return ==
    /\ bulk_pc = "loop"
    /\ pc = "idle"
    /\ Len(bulk_info) >= amount
    /\ returned' = <<bulk_info>>
    /\ bulk_pc' = "returned"
    /\ UNCHANGED <<pc, data, attrs, town_count, db_log, town_calls, town_data,
                   drawn, result, requested, amount, bulk_info, seed,
                   threads, http, direct>>

----------------------------------------------------------------------------
(* What the collaborators and the random source are made to give.           *)

NSeeds == 2              \* stubbed draw sequences a bulk call may run on
ExtraAmount == 3         \* amounts tried below 0 and above MaxAmount
NStubs == 72             \* stubbed tapes per step

NameFiles ==
    { [readable |-> TRUE,  persons |-> PersonNames],
      [readable |-> TRUE,  persons |-> <<>>],
      [readable |-> FALSE, persons |-> <<>>] }

NameChoices == 1..Len(PersonNames)

Stores ==
    { [up |-> TRUE,  count_ok |-> TRUE],
      [up |-> FALSE, count_ok |-> TRUE] }

\* tapes for _set_address: the draws written in the order the code reads them
AddressTape(street, n, lf, ul, ff, fl, dt, dn, dl, off) ==
    [ri |-> <<n, lf, ff>> \o (IF ff < 4 THEN <<>> ELSE <<fl>>)
            \o <<dt>> \o (IF dt < 17 THEN <<>> ELSE <<dn>>) \o <<off>>,
     ch |-> street \o (IF lf < 3 THEN <<ul>> ELSE <<>>)
            \o (IF dt < 19 THEN <<>> ELSE <<dl>>)]

\* streets: the first choice among the non-space characters, then one
\* position of the full alphabet repeated
StreetTape(first, rest) == <<first>> \o [k \in 1..(StreetLength - 1) |-> rest]

\* tapes for _set_phone: one prefix position, seven digits (the longest suffix)
PhoneTapes(Prefixes, Ds) ==
    {[ch |-> <<c>>, ri |-> r] : c \in Prefixes, r \in [1..(PhoneLength - 1) -> Ds]}

\* The i-th stubbed tape of each step, as the tests' side_effect lists give
\* them.
Pick(seq, i) == seq[1 + (i % Len(seq))]

NameChoiceAt(i) == 1 + (i % Len(PersonNames))

BirthTapeAt(i) ==
    << Pick(<<MinYear, CurrentYear>>, i), Pick(<<2, 12>>, i \div 2),
       Pick(<<1, 28>>, i \div 4) >>

CprTapeAt(i) ==
    Pick(<< <<4, 7, 8, 9>>, <<9, 0, 0, 0>>, <<1, 1, 2, 3>>, <<2, 1, 2, 3>> >>, i)

AddressTapeAt(i) ==
    AddressTape(StreetTape(1 + (i % 58), 1 + (i % 59)), 42, Pick(<<1, 5>>, i), 5,
                Pick(<<1, 4>>, i \div 2), 42, Pick(<<3, 18, 20>>, i), 37, 2,
                (i \div 3) % Len(TownTable))

PhoneTapeAt(i) ==
    [ch |-> <<Pick(<<1, 2, 18>>, i)>>, ri |-> <<1, 2, 3, 4, 5, 6, 7>>]

StubIndexes == 0..(NStubs - 1)
StubNameChoices == {NameChoiceAt(i) : i \in StubIndexes}
StubBirthDraws == {BirthTapeAt(i) : i \in StubIndexes}
StubCprDraws == {CprTapeAt(i) : i \in StubIndexes}
StubAddressTapes == {AddressTapeAt(i) : i \in StubIndexes}
StubPhoneTapes == {PhoneTapeAt(i) : i \in StubIndexes}

\* inside a bulk call the draws of the k-th record are those of index seed + k
InBulk == bulk_pc = "loop"
BulkIndex == seed + Len(bulk_info)
CurNameChoices == IF InBulk THEN {NameChoiceAt(BulkIndex)} ELSE StubNameChoices
CurBirthDraws == IF InBulk THEN {BirthTapeAt(BulkIndex)} ELSE StubBirthDraws
CurCprDraws == IF InBulk THEN {CprTapeAt(BulkIndex)} ELSE StubCprDraws
CurAddressTapes == IF InBulk THEN {AddressTapeAt(BulkIndex)} ELSE StubAddressTapes
CurPhoneTapes == IF InBulk THEN {PhoneTapeAt(BulkIndex)} ELSE StubPhoneTapes

Amounts == (0 - ExtraAmount)..(MaxAmount + ExtraAmount)
Seeds == 0..(NSeeds - 1)

----------------------------------------------------------------------------
(* GET /person (src/main.py), served one request at a time.                 *)

DefaultN == 1            \* Query(default=1)
MinN == 1                \* Query(ge=1)
MaxN == 100              \* Query(le=100)

UnprocessableEntity == 422   \* the framework's answer to a failed Query check
BadRequest == 400            \* HTTPException(status_code=400)
InternalError == 500         \* the framework's answer to an unhandled exception
Ok == 200

Rejection_NoUpperLimit(n) == IF n < MinN THEN UnprocessableEntity ELSE 0

Rejection_LeftToTheClamp(n) == 0

\* the status n is refused with, 0 when it is let through: the ge and le of
\* the Query declaration, then the handler's own test
Rejection(n) ==
    IF ~(n >= MinN /\ n <= MaxN) THEN UnprocessableEntity
    ELSE IF n < 1 \/ n > 100 THEN BadRequest
    ELSE 0

ErrorResponse(status) == [status |-> status, kind |-> "error", records |-> <<>>]

\* an object with nothing set, at position p
ResetObject(p) ==
    /\ pc' = p
    /\ data' = <<>>
    /\ first_name' = None /\ last_name' = None /\ gender' = None
    /\ birth_date' = NoText /\ cpr' = NoText /\ phone_number' = NoText
    /\ address' = NoDict
    /\ town_calls' = 0
    /\ town_data' = <<>>
    /\ drawn' = NoDraws
    /\ result' = <<>>

\* the handler returned or raised: fake and the list it built are gone
DropLocals ==
    /\ ResetObject("idle")
    /\ bulk_pc' = "idle"
    /\ requested' = 0 /\ amount' = 0 /\ seed' = 0
    /\ bulk_info' = <<>> /\ returned' = <<>>

\* a request arrives: the Query check, the handler's test and the call of
\* the engine.  Qs: the query strings, <<>> (no n) or <<n>>
get_person(Qs) ==
    /\ http_pc \in {"listening", "responded"}
    /\ \E q \in Qs :
          LET n == IF q = <<>> THEN DefaultN ELSE q[1]
          IN  /\ http_n' = n
              /\ IF Rejection(n) # 0
                 THEN /\ response' = <<ErrorResponse(Rejection(n))>>
                      /\ http_pc' = "responded"
                      /\ UNCHANGED <<single, bulk>>
                 ELSE IF n = 1
                 THEN \* fake = FakeInfo()
                      /\ response' = <<>>
                      /\ http_pc' = "single"
                      /\ ResetObject("name")
                      /\ bulk_pc' = "idle"
                      /\ requested' = 0 /\ amount' = 0 /\ seed' = 0
                      /\ bulk_info' = <<>> /\ returned' = <<>>
                 ELSE \* FakeInfo.get_fake_persons(n), up to bulk_info = []
                      /\ response' = <<>>
                      /\ http_pc' = "bulk"
                      /\ ResetObject("idle")
                      /\ bulk_pc' = "loop"
                      /\ requested' = n /\ amount' = ClampAmount(n)
                      /\ seed' = 0
                      /\ bulk_info' = <<>> /\ returned' = <<>>
    /\ UNCHANGED <<town_count, db_log, threads, direct>>

\* return fake.get_fake_person()
get_person_single ==
    /\ http_pc = "single"
    /\ pc = "done"
    /\ response' = <<[status |-> Ok, kind |-> "object",
                      records |-> <<PersonDict>>]>>
    /\ http_pc' = "responded"
    /\ DropLocals
    /\ UNCHANGED <<town_count, db_log, threads, http_n, direct>>

\* return FakeInfo.get_fake_persons(n)
get_person_bulk ==
    /\ http_pc = "bulk"
    /\ bulk_pc = "returned"
    /\ response' = <<[status |-> Ok, kind |-> "array",
                      records |-> returned[1]]>>
    /\ http_pc' = "responded"
    /\ DropLocals
    /\ UNCHANGED <<town_count, db_log, threads, http_n, direct>>

\* the engine raised: the handler has no except clause
get_person_raised ==
    /\ \/ http_pc = "single" /\ pc = "raised"
       \/ http_pc = "bulk" /\ bulk_pc = "raised"
    /\ response' = <<ErrorResponse(InternalError)>>
    /\ http_pc' = "responded"
    /\ DropLocals
    /\ UNCHANGED <<town_count, db_log, threads, http_n, direct>>

\* the query strings tried: none, and every n of Amounts
Requests == {<<>>} \cup {<<n>> : n \in Amounts}

\* a request's k-th record reads the draws of index k
HttpNameChoices == {NameChoiceAt(BulkIndex)}
HttpBirthDraws == {BirthTapeAt(BulkIndex)}
HttpCprDraws == {CprTapeAt(BulkIndex)}
HttpAddressTapes == {AddressTapeAt(BulkIndex)}
HttpPhoneTapes == {PhoneTapeAt(BulkIndex)}

----------------------------------------------------------------------------
(* Two worker threads, each constructing a FakeInfo.  A step is one stretch *)
(* of __init__ that touches the shared DB._town_count at most once; the     *)
(* thread reads the draws of its stub index.                                *)

NThreadStubs == 4        \* stubbed draw sequences a thread may run on

ThreadStubs == {7 * k : k \in 0..(NThreadStubs - 1)}

\* the address part of a thread's draws
ThreadRun(r) ==
    AddressRun(AddressTapeAt(r.stub).ri, AddressTapeAt(r.stub).ch)

RandomOffset_ZeroAfterCount(r) ==
    IF r.counted # <<>> THEN 0
    ELSE AddressTapeAt(r.stub).ri[ThreadRun(r).randints + 1]

\* random_offset = random.randint(0, DB._town_count - 1)
RandomOffset(r) == AddressTapeAt(r.stub).ri[ThreadRun(r).randints + 1]

TownDataOf_Shared(ths, t) ==
    IF \E u \in Threads \ {t} : ths[u].town_data # <<>>
    THEN ths[CHOOSE u \in Threads \ {t} : ths[u].town_data # <<>>].town_data
    ELSE ths[t].town_data

\* the local town_data that lines 114 and 115 of the thread read
TownDataOf(ths, t) == ths[t].town_data

\* fake.get_fake_person() of a thread's finished object
ThreadDict(r) ==
    [CPR |-> r.cpr, firstName |-> r.first_name, lastName |-> r.last_name,
     gender |-> r.gender, birthDate |-> r.birth_date, address |-> r.address,
     phoneNumber |-> r.phone_number]

\* a request handler on thread t calls FakeInfo()
t_new(t) ==
    /\ threads[t].pc \in {"idle", "done", "raised"}
    /\ \E i \in ThreadStubs :
          threads' = [threads EXCEPT
                         ![t] = [IdleThread EXCEPT !.pc = "name", !.stub = i]]
    /\ UNCHANGED <<single, bulk, http, town_count, db_log, direct>>

t_name(t) ==
    /\ threads[t].pc = "name"
    /\ \E file \in NameFiles :
          LET c == NameChoiceAt(threads[t].stub)
          IN  IF file.readable /\ Len(file.persons) > 0
              THEN threads' = [threads EXCEPT
                      ![t].first_name = PersonOf(file.persons, c).firstName,
                      ![t].last_name = PersonOf(file.persons, c).lastName,
                      ![t].gender = PersonOf(file.persons, c).gender,
                      ![t].pc = NextStep("name")]
              ELSE threads' = [threads EXCEPT ![t].pc = "raised"]
    /\ UNCHANGED <<single, bulk, http, town_count, db_log, direct>>

t_birth(t) ==
    /\ threads[t].pc = "birth"
    /\ threads' = [threads EXCEPT
          ![t].birth_date = BirthDateOf(BirthTapeAt(threads[t].stub)),
          ![t].pc = NextStep("birth")]
    /\ UNCHANGED <<single, bulk, http, town_count, db_log, direct>>

t_cpr(t) ==
    /\ threads[t].pc = "cpr"
    /\ threads' = [threads EXCEPT
          ![t].cpr = CprOf(threads[t].birth_date, threads[t].gender,
                           CprTapeAt(threads[t].stub)),
          ![t].pc = NextStep("cpr")]
    /\ UNCHANGED <<single, bulk, http, town_count, db_log, direct>>

\* _set_address up to DB(): the four local fields, then _connect
t_address(t) ==
    /\ threads[t].pc = "address"
    /\ \E db \in Stores :
          threads' = [threads EXCEPT
              ![t].address = PartialAddress(ThreadRun(threads[t])),
              ![t].pc = IF db.up THEN "check" ELSE "raised"]
    /\ UNCHANGED <<single, bulk, http, town_count, db_log, direct>>

\* DB.__init__: if DB._town_count is None
t_check(t) ==
    /\ threads[t].pc = "check"
    /\ threads' = [threads EXCEPT
          ![t].pc = IF town_count = NoCount THEN "count" ELSE "offset"]
    /\ UNCHANGED <<single, bulk, http, town_count, db_log, direct>>

\* _set_town_count: the COUNT query and fetchone()
t_count(t) ==
    /\ threads[t].pc = "count"
    /\ threads' = [threads EXCEPT ![t].counted = <<Len(table)>>,
                                  ![t].pc = "store"]
    /\ count_queries' = count_queries + 1
    /\ UNCHANGED <<single, bulk, http, town_count, count_writes, direct>>

\* _set_town_count: DB._town_count = result['total']
t_store(t) ==
    /\ threads[t].pc = "store"
    /\ town_count' = threads[t].counted[1]
    /\ count_writes' = count_writes + 1
    /\ threads' = [threads EXCEPT ![t].pc = "offset"]
    /\ UNCHANGED <<single, bulk, http, count_queries, direct>>

\* get_random_town: reads DB._town_count, draws the offset, fetches the row
t_fetch(t) ==
    /\ threads[t].pc = "offset"
    /\ LET random_offset == RandomOffset(threads[t])
       IN  IF town_count = NoCount \/ ~OffsetInRange(town_count, random_offset)
           THEN threads' = [threads EXCEPT ![t].pc = "raised"]
           ELSE threads' = [threads EXCEPT
                   ![t].town_calls = @ + 1,
                   ![t].town_data = FetchTown(table, random_offset),
                   ![t].pc = "assign"]
    /\ UNCHANGED <<single, bulk, http, town_count, db_log, direct>>

\* self.address['postal_code'], self.address['town_name']
t_assign(t) ==
    /\ threads[t].pc = "assign"
    /\ LET row == TownDataOf(threads, t)
       IN  IF row = <<>>
           THEN threads' = [threads EXCEPT ![t].pc = "raised"]
           ELSE threads' = [threads EXCEPT
                   ![t].address = FullAddress(threads[t].address, row[1]),
                   ![t].pc = NextStep("address")]
    /\ UNCHANGED <<single, bulk, http, town_count, db_log, direct>>

t_phone(t) ==
    /\ threads[t].pc = "phone"
    /\ threads' = [threads EXCEPT
          ![t].phone_number = PhoneOf(PhoneTapeAt(threads[t].stub).ri,
                                      PhoneTapeAt(threads[t].stub).ch),
          ![t].pc = NextStep("phone")]
    /\ UNCHANGED <<single, bulk, http, town_count, db_log, direct>>

----------------------------------------------------------------------------
(* Callers that use the classes directly rather than through GET /person.   *)

\* the text a caller writes over the street of a returned address
Modified == <<"M", "O", "D", "I", "F", "I", "E", "D">>

\* result['address']['street'] = 'MODIFIED': the dict get_fake_person
\* returned holds self.address itself, so the assignment writes the one
\* dict that both the result and the object refer to
caller_modifies_address ==
    /\ http_pc = "idle"
    /\ pc = "done"
    /\ bulk_pc = "idle"
    /\ result # <<>>
    /\ result[1].address = address
    /\ address.street # Modified
    /\ address' = [address EXCEPT !.street = Modified]
    /\ result' = <<[result[1] EXCEPT !.address = address']>>
    /\ UNCHANGED <<pc, data, first_name, last_name, gender, birth_date, cpr,
                   phone_number, town_count, db_log, town_calls, town_data,
                   drawn, bulk, threads, http, direct>>

\* one call fake_info._get_random_text(length, include_danish) made on its
\* own; it reads no attribute of the object and sets none
_get_random_text(Lengths, Flags, Tapes) ==
    /\ http_pc = "idle"
    /\ random_text.pc = "none"
    /\ \E length \in Lengths, include_danish \in Flags, ch \in Tapes :
          /\ TextChoicesInRange(length, include_danish, ch, 0)
          /\ random_text' = [pc |-> "returned", length |-> length,
                             include_danish |-> include_danish,
                             text |-> RandomText(length, include_danish, ch, 0)]
    /\ UNCHANGED <<single, attrs, town_count, db_log, bulk, threads, http,
                   table, direct_db>>

MaxQueries == 3          \* COUNT queries sent before the model stops

\* db = DB(), by a caller of the class
DB_init(Dbs) ==
    /\ http_pc = "idle"
    /\ \E store \in Dbs :
          LET out == DbOutcome(town_count, table, store)
          IN  /\ count_queries + out.queries <= MaxQueries
              /\ direct_db' = [pc |-> out.pc, offset |-> <<>>,
                               result |-> <<>>]
              /\ town_count' = out.count
              /\ count_queries' = count_queries + out.queries
              /\ count_writes' = count_writes + out.writes
    /\ UNCHANGED <<single, attrs, bulk, threads, http, table, random_text>>

\* db.get_random_town(), on an object whose construction returned
get_random_town(Offsets) ==
    /\ http_pc = "idle"
    /\ direct_db.pc \in {"connected", "returned", "draw_failed"}
    /\ IF town_count = NoCount
       THEN \* None - 1
            direct_db' = [pc |-> "type_error", offset |-> <<>>,
                          result |-> <<>>]
       ELSE IF town_count < 1
       THEN \* randint(0, -1) raises
            direct_db' = [pc |-> "draw_failed", offset |-> <<>>,
                          result |-> <<>>]
       ELSE \E random_offset \in Offsets :
               /\ OffsetInRange(town_count, random_offset)
               /\ direct_db' = [pc |-> "returned",
                                offset |-> <<random_offset>>,
                                result |-> FetchTown(table, random_offset)]
    /\ UNCHANGED <<single, attrs, town_count, db_log, bulk, threads, http,
                   table, random_text>>

----------------------------------------------------------------------------
(* Specifications                                                           *)

NoBulk ==
    /\ bulk_pc = "idle"
    /\ requested = 0 /\ amount = 0 /\ seed = 0
    /\ bulk_info = <<>> /\ returned = <<>>

Init ==
    /\ pc = "idle"
    /\ data = <<>>
    /\ count_queries = 0 /\ count_writes = 0
    /\ NoThreads
    /\ NoRequest
    /\ NoDirect
    /\ first_name = None /\ last_name = None /\ gender = None
    /\ birth_date = NoText /\ cpr = NoText /\ phone_number = NoText
    /\ address = NoDict
    /\ town_count = NoCount
    /\ town_calls = 0
    /\ town_data = <<>>
    /\ drawn = NoDraws
    /\ result = <<>>
    /\ NoBulk

Next ==
    \/ new_FakeInfo
    \/ _set_full_name_and_gender(NameFiles, CurNameChoices)
    \/ _set_birth_date(CurBirthDraws)
    \/ _set_cpr(CurCprDraws)
    \/ _set_address(CurAddressTapes, Stores)
    \/ _set_phone(CurPhoneTapes)
    \/ get_fake_person
    \/ get_fake_persons(Amounts, Seeds)
    \/ bulk_append
    \/ bulk_raise
    \/ bulk_return

Spec == Init /\ [][Next]_vars

----------------------------------------------------------------------------
(* One sub-generator at a time, over every draw it can make.  These start   *)
(* from an object that the steps before have filled.                        *)

\* the object after _set_full_name_and_gender picked entry c
ObjectAfterName(c) ==
    /\ data = <<PersonNames>>
    /\ NoThreads
    /\ NoRequest
    /\ first_name = PersonNames[c].firstName
    /\ last_name = PersonNames[c].lastName
    /\ gender = PersonNames[c].gender
    /\ result = <<>>
    /\ NoBulk

AfterName(c) == ObjectAfterName(c) /\ NoDirect

\* ... and after _set_birth_date read the tape ri
AfterBirth(c, ri) ==
    /\ AfterName(c)
    /\ birth_date = BirthDateOf(ri)

\* no DB() yet
BeforeLookup ==
    /\ town_count = NoCount /\ count_queries = 0 /\ count_writes = 0
    /\ town_calls = 0 /\ town_data = <<>>

\* the draws the tests feed: born 1985-03-21, digits 4, 7, 8, 9
FixedBirthDraws == <<1985, 3, 21>>
FixedCprDraws == <<4, 7, 8, 9>>

SampleBirthDraws ==
    { ri \in BirthDraws(Sample(MinYear, CurrentYear, NYearSamples),
                        Sample(1, 12, NMonthSamples), {1, 28}) :
        BirthDrawsInRange(ri) /\ ValidDate(ri[1], ri[2], ri[3]) }

InitBirth ==
    /\ pc = "birth"
    /\ \E c \in NameChoices :
          AfterName(c) /\ drawn = [ri |-> <<>>, ch |-> <<c>>]
    /\ birth_date = NoText /\ cpr = NoText /\ phone_number = NoText
    /\ address = NoDict
    /\ BeforeLookup

\* every tape of three draws; _set_birth_date keeps those in range
AllBirthDraws == BirthDraws(MinYear..CurrentYear, 1..12, 1..31)

NextBirth == _set_birth_date(AllBirthDraws)

SpecBirth == InitBirth /\ [][NextBirth]_vars

\* the birth dates _set_cpr is run on: the samples and the tests' date
CprBirthDraws == SampleBirthDraws \cup {FixedBirthDraws}

InitCpr ==
    /\ pc = "cpr"
    /\ \E c \in NameChoices, ri \in CprBirthDraws :
          AfterBirth(c, ri) /\ drawn = [ri |-> ri, ch |-> <<>>]
    /\ cpr = NoText /\ phone_number = NoText
    /\ address = NoDict
    /\ BeforeLookup

AllCprDraws == CprDraws(0..9)

NextCpr == _set_cpr(AllCprDraws)

SpecCpr == InitCpr /\ [][NextCpr]_vars

FixedAddressTape ==
    AddressTape(StreetTape(1, 1), 42, 5, 5, 1, 42, 3, 37, 2, 1)

\* ... after _set_cpr read the tape cri
AfterCpr(c, bri, cri) ==
    /\ AfterBirth(c, bri)
    /\ cpr = CprOf(BirthDateOf(bri), PersonNames[c].gender, cri)

\* ... after _set_address read the tape t from a database that is up
AfterAddress(c, bri, cri, t) ==
    LET run == AddressRun(t.ri, t.ch)
        row == TownTable[t.ri[run.randints + 1] + 1]
    IN  /\ AfterCpr(c, bri, cri)
        /\ address = FullAddress(run, row)
        /\ town_count = Len(TownTable)
        /\ count_queries = 1 /\ count_writes = 1
        /\ town_calls = 1
        /\ town_data = <<row>>

NNumberSamples == 2      \* door numbers tried in each of 1..50 and 1..999

DoorNumbers == Sample(1, 50, NNumberSamples) \cup Sample(1, 999, NNumberSamples)

\* every door_type and every door letter; the flags before them on both
\* sides of their thresholds
DoorTapes ==
    { AddressTape(StreetTape(1, 1), 42, lf, 5, ff, 42, dt, dn, dl, 1) :
        lf \in {2, 3}, ff \in {3, 4}, dt \in 1..20, dn \in DoorNumbers,
        dl \in 1..Len(LowerLetters) }

InitDoor ==
    /\ pc = "address"
    /\ \E c \in NameChoices :
          AfterCpr(c, FixedBirthDraws, FixedCprDraws)
    /\ drawn = [ri |-> FixedCprDraws, ch |-> <<>>]
    /\ phone_number = NoText
    /\ address = NoDict
    /\ BeforeLookup

NextDoor == _set_address(DoorTapes, Stores)

SpecDoor == InitDoor /\ [][NextDoor]_vars

\* a street tape with the choice c at position k and rest everywhere else
\* after the first
StreetTapeWith(first, rest, k, c) ==
    <<first>> \o [j \in 1..(StreetLength - 1) |-> IF j + 1 = k THEN c ELSE rest]

\* every first character with every repeated character, and a space at each
\* position after the first
StreetTapes ==
    { AddressTape(StreetTape(first, rest), 42, 5, 5, 1, 42, 3, 37, 2, 1) :
        first \in 1..Len(NonSpace(TRUE)), rest \in 1..Len(ValidChars(TRUE)) }
    \cup
    { AddressTape(StreetTapeWith(Len(NonSpace(TRUE)), 2, k, 1),
                  42, 5, 5, 1, 42, 3, 37, 2, 1) : k \in 2..StreetLength }

NextStreet == _set_address(StreetTapes, Stores)

SpecStreet == InitDoor /\ [][NextStreet]_vars

\* numbers at the ends of each length 1, 2, 3 and a sample between
HouseNumbers == {1, 9, 10, 99, 100, 999} \cup Sample(1, 999, NNumberSamples)

FloorNumbers == {1, 9, 10, 99} \cup Sample(1, 99, NNumberSamples)

\* every value of both flags, every uppercase letter
NumberFloorTapes ==
    { AddressTape(StreetTape(1, 1), n, lf, ul, ff, fl, 3, 37, 2, 1) :
        n \in HouseNumbers, lf \in 1..10, ul \in 1..Len(UpperLetters),
        ff \in 1..10, fl \in FloorNumbers }

NextNumberFloor == _set_address(NumberFloorTapes, Stores)

SpecNumberFloor == InitDoor /\ [][NextNumberFloor]_vars

NDigitSamples == 2       \* digits tried in each position of the phone suffix

\* every prefix, the suffix digits from the sample
AllPhoneTapes ==
    PhoneTapes(1..Len(PHONE_PREFIXES), Sample(0, 9, NDigitSamples))

InitPhone ==
    /\ pc = "phone"
    /\ \E c \in NameChoices :
          AfterAddress(c, FixedBirthDraws, FixedCprDraws, FixedAddressTape)
    /\ drawn = FixedAddressTape
    /\ phone_number = NoText

NextPhone == _set_phone(AllPhoneTapes)

SpecPhone == InitPhone /\ [][NextPhone]_vars

NextThreads ==
    \/ \E t \in Threads : t_new(t)
    \/ \E t \in Threads : t_name(t)
    \/ \E t \in Threads : t_birth(t)
    \/ \E t \in Threads : t_cpr(t)
    \/ \E t \in Threads : t_address(t)
    \/ \E t \in Threads : t_check(t)
    \/ \E t \in Threads : t_count(t)
    \/ \E t \in Threads : t_store(t)
    \/ \E t \in Threads : t_fetch(t)
    \/ \E t \in Threads : t_assign(t)
    \/ \E t \in Threads : t_phone(t)

SpecThreads == Init /\ [][NextThreads]_vars

InitHttp ==
    /\ pc = "idle"
    /\ data = <<>>
    /\ first_name = None /\ last_name = None /\ gender = None
    /\ birth_date = NoText /\ cpr = NoText /\ phone_number = NoText
    /\ address = NoDict
    /\ town_count = NoCount
    /\ count_queries = 0 /\ count_writes = 0
    /\ town_calls = 0
    /\ town_data = <<>>
    /\ drawn = NoDraws
    /\ result = <<>>
    /\ NoBulk
    /\ NoThreads
    /\ Listening
    /\ NoDirect

NextHttp ==
    \/ get_person(Requests)
    \/ get_person_single
    \/ get_person_bulk
    \/ get_person_raised
    \/ new_FakeInfo
    \/ _set_full_name_and_gender(NameFiles, HttpNameChoices)
    \/ _set_birth_date(HttpBirthDraws)
    \/ _set_cpr(HttpCprDraws)
    \/ _set_address(HttpAddressTapes, Stores)
    \/ _set_phone(HttpPhoneTapes)
    \/ bulk_append
    \/ bulk_raise
    \/ bulk_return

SpecHttp == InitHttp /\ [][NextHttp]_vars

\* get_fake_person and a caller that writes into what it returned, on an
\* object whose phone number is the last thing to be set
NextCaller ==
    \/ _set_phone(AllPhoneTapes)
    \/ get_fake_person
    \/ caller_modifies_address

SpecCaller == InitPhone /\ [][NextCaller]_vars

\* values that are in range wherever a draw after the flags may be read: as
\* a floor, as a door_type on each side of 17 and 19, as a door number, and
\* (0 and 2) as an offset into the table
DrawValues == {0, 2, 16, 17, 19, 20}

\* tapes that hold a value at every position any run could read, so that
\* what a skipped branch leaves on the tape is there for the next call
DrawTapes ==
    { [ri |-> <<42, lf, ff, a, b, c, d>>, ch |-> StreetTape(1, 1) \o <<u, v>>] :
        lf \in {2, 3}, ff \in {3, 4},
        a \in DrawValues, b \in DrawValues, c \in DrawValues,
        d \in DrawValues, u \in {3, 5}, v \in {3, 5} }

NextDraws == _set_address(DrawTapes, Stores)

SpecDraws == InitDoor /\ [][NextDraws]_vars

MaxTextLength == 3       \* the longest text asked of _get_random_text

\* lengths on both sides of 1, negative ones included
TextLengths == (0 - 2)..MaxTextLength

BothFlags == {TRUE, FALSE}

\* positions tried after the first character: the space, a Latin letter and
\* the last Danish letter
RestChoices == {1, 27, Len(ValidChars(TRUE))}

\* every first choice, with sampled choices after it
TextTapes ==
    { <<first>> \o rest :
        first \in 1..Len(NonSpace(TRUE)),
        rest \in [1..(MaxTextLength - 1) -> RestChoices] }

NextText == _get_random_text(TextLengths, BothFlags, TextTapes)

SpecText == Init /\ [][NextText]_vars

\* the store reachable and answering, unreachable, and reachable but
\* failing the COUNT query
DbStores == Stores \cup {[up |-> TRUE, count_ok |-> FALSE]}

\* an empty table, a table of one row, and the towns
Tables == {<<>>, <<TownTable[1]>>, TownTable}

\* offsets up to one past the last row
Offsets == 0..Len(TownTable)

\* the address draws of the tests, with each offset
OffsetTapes ==
    { AddressTape(StreetTape(1, 1), 42, 5, 5, 1, 42, 3, 37, 2, off) :
        off \in Offsets }

\* an object about to run _set_address, over each table, and no DB() yet
InitDb ==
    /\ pc = "address"
    /\ ObjectAfterName(1)
    /\ birth_date = BirthDateOf(FixedBirthDraws)
    /\ cpr = CprOf(BirthDateOf(FixedBirthDraws), PersonNames[1].gender,
                   FixedCprDraws)
    /\ drawn = [ri |-> FixedCprDraws, ch |-> <<>>]
    /\ phone_number = NoText
    /\ address = NoDict
    /\ BeforeLookup
    /\ table \in Tables /\ direct_db = NoDb /\ random_text = NoTextCall

\* a caller of the DB class beside one construction of a FakeInfo; both
\* use the one DB._town_count
NextDb ==
    \/ DB_init(DbStores)
    \/ get_random_town(Offsets)
    \/ _set_address(OffsetTapes, DbStores)

SpecDb == InitDb /\ [][NextDb]_vars

----------------------------------------------------------------------------
(* Properties                                                               *)

\* _set_cpr was the latest step: cpr is set and drawn holds its four draws
CprJustSet == pc = "address" /\ cpr # NoText

LastDigit(s) == DigitVal(s[Len(s)])

\* C1: the last digit of the CPR is even for gender 'female' and odd for
\* gender 'male', whatever was drawn.
C1_ParityMatchesGender ==
    cpr # NoText =>
        /\ gender = GENDER_FEMININE => LastDigit(cpr) % 2 = 0
        /\ gender = GENDER_MASCULINE => LastDigit(cpr) % 2 = 1

\* a male record whose drawn final digit 8 had to be adjusted
C1_Witness ==
    /\ CprJustSet
    /\ gender = GENDER_MASCULINE
    /\ drawn.ri[1] = 8
    /\ LastDigit(cpr) = 9

\* C2: cpr[0:2], cpr[2:4], cpr[4:6] are the day, the month and the last two
\* digits of the year as they stand in the same record's birth_date.
C2_DatePartMatchesBirthDate ==
    cpr # NoText =>
        /\ SubSeq(cpr, 1, 2) = SubSeq(birth_date, 9, 10)
        /\ SubSeq(cpr, 3, 4) = SubSeq(birth_date, 6, 7)
        /\ SubSeq(cpr, 5, 6) = SubSeq(birth_date, 3, 4)

\* a record born on 1 December of the current year
C2_Witness ==
    /\ CprJustSet
    /\ birth_date = StrftimeYmd(CurrentYear, 12, 1)
    /\ SubSeq(cpr, 1, 4) = <<"0", "1", "1", "2">>

\* C3: the CPR is exactly 10 characters, all decimal digits.
C3_TenDigits == cpr # NoText => Len(cpr) = 10 /\ IsNumeric(cpr)

\* a female record with all four draws 9: the adjusted digit wraps to 0
C3_Witness ==
    /\ CprJustSet
    /\ gender = GENDER_FEMININE
    /\ drawn.ri = <<9, 9, 9, 9>>
    /\ SubSeq(cpr, 7, 10) = <<"9", "9", "9", "0">>

\* C4: the final digit is the drawn digit d when d's parity already matches
\* the gender, and (d + 1) mod 10 otherwise; it is never d - 1.
C4_AdjustmentIncrements ==
    CprJustSet =>
        LET d == drawn.ri[1]
            matches == \/ gender = GENDER_FEMININE /\ d % 2 = 0
                       \/ gender = GENDER_MASCULINE /\ d % 2 = 1
        IN  LastDigit(cpr) = IF matches THEN d ELSE (d + 1) % 10

\* a drawn 9 for a female record became 0
C4_Witness ==
    /\ CprJustSet
    /\ gender = GENDER_FEMININE
    /\ drawn.ri[1] = 9
    /\ cpr[10] = "0"

\* C6: the year of birth_date is in [1900, current year], the month in
\* [1, 12], the day in [1, 31], [1, 30] or [1, 28] by the month's class,
\* February never going beyond 28.
C6_BirthDateInTable ==
    birth_date # NoText =>
        LET y == StrToInt(SubSeq(birth_date, 1, 4))
            m == StrToInt(SubSeq(birth_date, 6, 7))
            d == StrToInt(SubSeq(birth_date, 9, 10))
        IN  /\ y >= 1900 /\ y <= CurrentYear
            /\ m >= 1 /\ m <= 12
            /\ d >= 1
            /\ m \in {1, 3, 5, 7, 8, 10, 12} => d <= 31
            /\ m \in {4, 6, 9, 11} => d <= 30
            /\ m = 2 => d <= 28

\* 28 February of a leap year was drawn
C6_Witness ==
    /\ pc = "cpr"
    /\ drawn.ri = <<2024, 2, 28>>
    /\ birth_date = <<"2", "0", "2", "4", "-", "0", "2", "-", "2", "8">>

\* C5: get_fake_persons(amount) returns exactly min(max(amount, 2), 100)
\* records for every integer amount, and raises only when a construction
\* inside it raised.
C5_BulkLengthIsClamped ==
    /\ returned # <<>> =>
          /\ requested < 2 => Len(returned[1]) = 2
          /\ requested > 100 => Len(returned[1]) = 100
          /\ (requested >= 2 /\ requested <= 100) => Len(returned[1]) = requested
    /\ bulk_pc = "raised" => pc = "raised"

\* a negative amount came back as two records
C5_Witness ==
    /\ bulk_pc = "returned"
    /\ requested < 0
    /\ returned # <<>>
    /\ Len(returned[1]) = 2

\* _set_phone was the latest step: drawn holds its choice and its digits
PhoneJustSet == pc = "done" /\ bulk_pc = "idle" /\ result = <<>>

\* C7: the phone number is 8 decimal digits: the chosen prefix, then exactly
\* 8 - len(prefix) drawn digits.
C7_PhoneIsPrefixPlusSuffix ==
    PhoneJustSet =>
        LET prefix == PHONE_PREFIXES[drawn.ch[1]]
        IN  /\ Len(phone_number) = 8
            /\ IsNumeric(phone_number)
            /\ SubSeq(phone_number, 1, Len(prefix)) = prefix
            /\ Len(drawn.ri) = 8 - Len(prefix)
            /\ \A k \in 1..Len(drawn.ri) :
                  phone_number[Len(prefix) + k] = DigitChar(drawn.ri[k])

\* the three-digit prefix 829 followed by five nines
C7_Witness ==
    /\ PhoneJustSet
    /\ PHONE_PREFIXES[drawn.ch[1]] = <<"8", "2", "9">>
    /\ drawn.ri = <<9, 9, 9, 9, 9>>
    /\ phone_number = <<"8", "2", "9", "9", "9", "9", "9", "9">>

PersonKeys ==
    {"CPR", "firstName", "lastName", "gender", "birthDate", "address",
     "phoneNumber"}

AddressKeys ==
    {"street", "number", "floor", "door", "postal_code", "town_name"}

HasFixedKeys(p) == DOMAIN p = PersonKeys /\ DOMAIN p.address = AddressKeys

\* C8: every record get_fake_person returns, and every element of a bulk
\* result, has exactly the seven keys, and its address exactly the six keys.
C8_FixedKeySet ==
    /\ \A i \in 1..Len(result) : HasFixedKeys(result[i])
    /\ \A i \in 1..Len(bulk_info) : HasFixedKeys(bulk_info[i])
    /\ \A r \in 1..Len(returned) :
          \A i \in 1..Len(returned[r]) : HasFixedKeys(returned[r][i])

\* a bulk result holding a record on floor 'st' and one on a numbered floor
C8_Witness ==
    /\ returned # <<>>
    /\ \E i, j \in 1..Len(returned[1]) :
          /\ returned[1][i].address.floor = <<"s", "t">>
          /\ returned[1][j].address.floor # <<"s", "t">>
          /\ returned[1][j].address.door[1] = "b"

IsTownRow(a) ==
    \E k \in 1..Len(TownTable) :
        /\ a.postal_code = TownTable[k].postal_code
        /\ a.town_name = TownTable[k].town_name

\* C9: a record generation calls the town lookup exactly once, and its
\* postal_code and town_name are the two values of the row that call gave.
C9_TownFromOneLookup ==
    /\ pc \in {"name", "birth", "cpr", "address"} => town_calls = 0
    /\ pc \in {"phone", "done"} =>
          /\ town_calls = 1
          /\ Len(town_data) = 1
          /\ address.postal_code = town_data[1].postal_code
          /\ address.town_name = town_data[1].town_name
          /\ IsTownRow(town_data[1])
    /\ \A i \in 1..Len(bulk_info) : IsTownRow(bulk_info[i].address)

\* a finished record whose lookup returned the last row of the table
C9_Witness ==
    /\ pc = "done"
    /\ town_calls = 1
    /\ town_data = <<TownTable[Len(TownTable)]>>
    /\ address.postal_code = "8000"
    /\ address.town_name = "Aarhus C"

\* _set_address got as far as the door
DoorJustSet == pc \in {"phone", "raised"} /\ "door" \in DOMAIN address

\* door_type is the randint after the floor's one or two
DoorTypeDrawn == drawn.ri[IF drawn.ri[3] < 4 THEN 4 ELSE 5]

IsDecimal(s) == IsNumeric(s) /\ s[1] # "0"

DoorLetters ==
    {"a", "b", "c", "d", "e", "f", "g", "h", "i", "j", "k", "l", "m", "n",
     "o", "p", "q", "r", "s", "t", "u", "v", "w", "x", "y", "z", "ø", "æ", "å"}

\* C10: door_type 1..7 gives 'th', 8..14 'tv', 15..16 'mf', 17..18 a number
\* in [1, 50], 19..20 a lowercase letter (a-z, ø, æ, å) and a number in
\* [1, 999], with a dash between them exactly when door_type is 20.
C10_DoorByType ==
    DoorJustSet =>
        LET dt == DoorTypeDrawn
            door == address.door
            tail == SubSeq(door, IF dt = 20 THEN 3 ELSE 2, Len(door))
        IN  /\ dt \in 1..20
            /\ dt \in 1..7 => door = <<"t", "h">>
            /\ dt \in 8..14 => door = <<"t", "v">>
            /\ dt \in 15..16 => door = <<"m", "f">>
            /\ dt \in 17..18 =>
                  /\ IsDecimal(door)
                  /\ StrToInt(door) >= 1 /\ StrToInt(door) <= 50
            /\ dt \in 19..20 =>
                  /\ door[1] \in DoorLetters
                  /\ dt = 20 => door[2] = "-"
                  /\ IsDecimal(tail)
                  /\ StrToInt(tail) >= 1 /\ StrToInt(tail) <= 999

\* door_type 20 with the last letter of the alphabet and the largest number
C10_Witness ==
    /\ DoorJustSet
    /\ DoorTypeDrawn = 20
    /\ address.door = <<"å", "-", "9", "9", "9">>

\* _set_address got as far as the street, the number and the floor
AddressJustSet ==
    /\ pc \in {"phone", "raised"}
    /\ {"street", "number", "floor"} \subseteq DOMAIN address

StreetAlphabet ==
    {" ",
     "a", "b", "c", "d", "e", "f", "g", "h", "i", "j", "k", "l", "m",
     "n", "o", "p", "q", "r", "s", "t", "u", "v", "w", "x", "y", "z",
     "A", "B", "C", "D", "E", "F", "G", "H", "I", "J", "K", "L", "M",
     "N", "O", "P", "Q", "R", "S", "T", "U", "V", "W", "X", "Y", "Z",
     "æ", "ø", "å", "Æ", "Ø", "Å"}

\* C11: the street is exactly 40 characters, its first character is not a
\* space, and every character is a Latin letter, one of æøåÆØÅ or a space.
C11_StreetFortyFromAlphabet ==
    AddressJustSet =>
        /\ Len(address.street) = 40
        /\ address.street[1] # " "
        /\ \A k \in 1..Len(address.street) :
              address.street[k] \in StreetAlphabet

\* a street that starts with Å and has its one space in the last position
C11_Witness ==
    /\ AddressJustSet
    /\ address.street[1] = "Å"
    /\ address.street[40] = " "
    /\ \A k \in 2..39 : address.street[k] = "a"

UpperAlphabet ==
    {"A", "B", "C", "D", "E", "F", "G", "H", "I", "J", "K", "L", "M",
     "N", "O", "P", "Q", "R", "S", "T", "U", "V", "W", "X", "Y", "Z"}

\* C12: the number is the decimal string of the drawn integer in [1, 999],
\* followed by one uppercase letter A-Z exactly when the flag drawn from
\* 1..10 is 1 or 2; it has one to three digits and at most one letter.
C12_NumberWithOptionalLetter ==
    AddressJustSet =>
        LET n == drawn.ri[1]
            flag == drawn.ri[2]
            num == address.number
            digits == IF flag \in {1, 2} THEN SubSeq(num, 1, Len(num) - 1)
                      ELSE num
        IN  /\ n >= 1 /\ n <= 999
            /\ flag \in 1..10
            /\ Len(digits) \in 1..3
            /\ IsDecimal(digits)
            /\ StrToInt(digits) = n
            /\ flag \in {1, 2} => num[Len(num)] \in UpperAlphabet

\* flag 2 with number 999 and the letter Z
C12_Witness ==
    /\ AddressJustSet
    /\ drawn.ri[2] = 2
    /\ address.number = <<"9", "9", "9", "Z">>

\* C13: the floor is 'st' exactly when the flag drawn from 1..10 is 1, 2 or
\* 3; otherwise it is the decimal string of the drawn integer in [1, 99].
C13_FloorStOrNumber ==
    AddressJustSet =>
        LET flag == drawn.ri[3]
            floor == address.floor
        IN  /\ flag \in 1..10
            /\ flag \in {1, 2, 3} => floor = <<"s", "t">>
            /\ flag \in 4..10 =>
                  /\ IsDecimal(floor)
                  /\ StrToInt(floor) = drawn.ri[4]
                  /\ StrToInt(floor) >= 1 /\ StrToInt(floor) <= 99

\* flag 3 gives 'st', seen next to a number on the other side of the flag
C13_Witness ==
    /\ AddressJustSet
    /\ drawn.ri[3] = 3
    /\ address.floor = <<"s", "t">>
    /\ address.number = <<"1", "0", "0">>

\* every attribute of the object is set
AllSet ==
    /\ first_name # None /\ last_name # None /\ gender # None
    /\ birth_date # NoText /\ cpr # NoText /\ phone_number # NoText
    /\ DOMAIN address = AddressKeys

\* C15: a construction that fails stops where it failed (nothing after the
\* failing step is set, the lookup is not repeated) and hands no record to
\* its caller; a bulk call in which a construction failed returns nothing,
\* not the records it had already collected.
C15_AllOrNothing ==
    /\ pc = "raised" =>
          /\ result = <<>>
          /\ phone_number = NoText
          /\ "postal_code" \notin DOMAIN address
          /\ town_calls <= 1
          /\ first_name = None =>
                birth_date = NoText /\ cpr = NoText /\ address = NoDict
    /\ result # <<>> => pc = "done" /\ AllSet
    /\ bulk_pc = "raised" => pc = "raised" /\ returned = <<>>
    /\ returned # <<>> => Len(returned[1]) = amount

\* the town lookup failed for a later record of a bulk call that had
\* already collected records
C15_Witness ==
    /\ bulk_pc = "raised"
    /\ Len(bulk_info) >= 1
    /\ DOMAIN address = {"street", "number", "floor", "door"}
    /\ returned = <<>>

\* C18: within one construction the steps run in the order name and gender,
\* birth date, CPR, address, phone, each once: at every position exactly the
\* attributes of the steps before it are set, so the CPR is computed with
\* gender and birth date set and the phone after the address and its lookup.
C18_StepsInOrder ==
    /\ pc = "name" =>
          /\ gender = None /\ birth_date = NoText /\ cpr = NoText
          /\ address = NoDict /\ phone_number = NoText
    /\ pc = "birth" =>
          /\ gender # None /\ birth_date = NoText /\ cpr = NoText
          /\ address = NoDict /\ phone_number = NoText
    /\ pc = "cpr" =>
          /\ gender # None /\ birth_date # NoText /\ cpr = NoText
          /\ address = NoDict /\ phone_number = NoText
    /\ pc = "address" =>
          /\ gender # None /\ birth_date # NoText /\ cpr # NoText
          /\ address = NoDict /\ town_calls = 0 /\ phone_number = NoText
    /\ pc = "phone" =>
          /\ gender # None /\ birth_date # NoText /\ cpr # NoText
          /\ DOMAIN address = AddressKeys /\ town_calls = 1
          /\ phone_number = NoText
    /\ pc = "done" => AllSet /\ town_calls = 1
    /\ cpr # NoText => gender # None /\ birth_date # NoText
    /\ phone_number # NoText =>
          DOMAIN address = AddressKeys /\ town_calls = 1

\* the address and its lookup are complete and the phone step is next
C18_Witness ==
    /\ pc = "phone"
    /\ cpr # NoText
    /\ DOMAIN address = AddressKeys
    /\ town_calls = 1
    /\ phone_number = NoText

\* the three name fields are those of one entry of the corpus
IsEntryOf(persons, f, l, g) ==
    \E k \in 1..Len(persons) :
        persons[k] = [firstName |-> f, lastName |-> l, gender |-> g]

\* C19: first name, last name and gender are the three fields of one single
\* entry of the corpus that was read, for the object and for every record of
\* a bulk call, and a construction that read a corpus without entries fails.
C19_NameDrawnJointly ==
    /\ pc \in {"birth", "cpr", "address", "phone", "done"} =>
          /\ data # <<>>
          /\ Len(data[1]) > 0
          /\ IsEntryOf(data[1], first_name, last_name, gender)
    /\ (data # <<>> /\ Len(data[1]) = 0) =>
          /\ pc = "raised"
          /\ first_name = None /\ last_name = None /\ gender = None
    /\ \A i \in 1..Len(bulk_info) :
          IsEntryOf(PersonNames, bulk_info[i].firstName,
                    bulk_info[i].lastName, bulk_info[i].gender)

\* an entry that shares its last name with an entry of the other gender
C19_Witness ==
    /\ pc = "done"
    /\ first_name = "Freja" /\ last_name = "Jensen" /\ gender = "female"

\* C14: in one process the COUNT query is executed at most once and
\* DB._town_count is assigned at most once, however many constructions run
\* and however the threads that run them interleave.
C14_CountFetchedOnce == count_queries <= 1 /\ count_writes <= 1

\* the final digit of a thread's CPR agrees with the thread's gender
OwnParity(r) ==
    /\ r.gender = GENDER_FEMININE => LastDigit(r.cpr) % 2 = 0
    /\ r.gender = GENDER_MASCULINE => LastDigit(r.cpr) % 2 = 1

RefusedCount == http_pc = "responded" /\ (http_n < 1 \/ http_n > 100)

\* C20: a GET /person whose n is below 1 or above 100 is answered with an
\* error response that holds no record, and the step that answers it leaves
\* the engine untouched: no object is constructed and no list is built.
C20_InvalidCountIsAnError ==
    [][RefusedCount' =>
          /\ response'[1].status >= 400
          /\ response'[1].records = <<>>
          /\ UNCHANGED <<single, bulk, town_count, db_log>>]_vars

\* n = 101 was refused after an earlier request had been served
C20_Witness ==
    /\ RefusedCount
    /\ http_n = 101
    /\ response = <<ErrorResponse(UnprocessableEntity)>>
    /\ pc = "idle" /\ bulk_pc = "idle"
    /\ town_count # NoCount

\* C22: the address inside a dict that get_fake_person returned is not the
\* object's own address: once the object is constructed no step changes its
\* address, so a later get_fake_person returns the address as generated,
\* whatever a caller did to the dict it was handed.
C22_AddressKeptAfterReturn ==
    [][(pc = "done" /\ pc' = "done") => address' = address]_vars

\* C23: _set_cpr draws the final digit first and the three middle digits
\* after it: cpr[6:9] shows the 2nd, 3rd and 4th draws in draw order and
\* cpr[9] the 1st draw, moved up by one (9 wraps to 0) when its parity does
\* not suit the gender; draws 4, 7, 8, 9 for a female born 1985-03-21 give
\* 2103857894.
C23_FinalDigitDrawnFirst ==
    CprJustSet =>
        LET ri == drawn.ri
            mismatch == \/ gender = GENDER_FEMININE /\ ri[1] % 2 = 1
                        \/ gender = GENDER_MASCULINE /\ ri[1] % 2 = 0
        IN  /\ Len(ri) = 4
            /\ SubSeq(cpr, 7, 9)
                  = <<DigitChar(ri[2]), DigitChar(ri[3]), DigitChar(ri[4])>>
            /\ DigitVal(cpr[10]) = IF mismatch THEN (ri[1] + 1) % 10 ELSE ri[1]
            /\ (/\ birth_date = StrftimeYmd(1985, 3, 21)
                /\ gender = GENDER_FEMININE
                /\ ri = <<4, 7, 8, 9>>)
               => cpr = <<"2", "1", "0", "3", "8", "5", "7", "8", "9", "4">>

\* the tests' case: female, born 1985-03-21, draws 4, 7, 8, 9
C23_Witness ==
    /\ CprJustSet
    /\ gender = GENDER_FEMININE
    /\ birth_date = StrftimeYmd(1985, 3, 21)
    /\ drawn.ri = FixedCprDraws
    /\ cpr = <<"2", "1", "0", "3", "8", "5", "7", "8", "9", "4">>

\* the ending of the text s that is as long as the text e
Ending(s, e) == SubSeq(s, Len(s) - Len(e) + 1, Len(s))

\* C24: _set_address reads its integer draws in the order house number,
\* letter flag, floor flag, floor number, door_type, door number, and a branch
\* that is not taken reads nothing: the floor number is drawn only under a
\* floor flag of 4 or more, the door number only under a door_type of 17 or
\* more, the suffix letter only under a letter flag below 3.
C24_SkippedBranchDrawsNothing ==
    AddressJustSet =>
        LET ri == drawn.ri
            ch == drawn.ch
            kl == IF ri[2] < 3 THEN 1 ELSE 0
            kf == IF ri[3] >= 4 THEN 1 ELSE 0
            door_type == ri[4 + kf]
            kd == IF door_type >= 17 THEN 1 ELSE 0
            ko == IF pc = "phone" THEN 1 ELSE 0     \* the offset of the lookup
        IN  /\ Len(ri) = 4 + kf + kd + ko
            /\ Len(ch) = StreetLength + kl + (IF door_type >= 19 THEN 1 ELSE 0)
            /\ SubSeq(address.number, 1, Len(IntToStr(ri[1]))) = IntToStr(ri[1])
            /\ Len(address.number) = Len(IntToStr(ri[1])) + kl
            /\ kl = 1 => address.number[Len(address.number)]
                            = UpperLetters[ch[StreetLength + 1]]
            /\ address.floor
                  = IF kf = 1 THEN IntToStr(ri[4]) ELSE <<"s", "t">>
            /\ kd = 0 =>
                  address.door \in {<<"t", "h">>, <<"t", "v">>, <<"m", "f">>}
            /\ kd = 1 =>
                  Ending(address.door, IntToStr(ri[5 + kf]))
                     = IntToStr(ri[5 + kf])
            /\ ko = 1 => town_data = <<table[ri[Len(ri)] + 1]>>

\* no letter and no floor number were drawn: the fourth draw was the
\* door_type 17, the fifth the door number, the sixth the offset
C24_Witness ==
    /\ AddressJustSet
    /\ pc = "phone"
    /\ drawn.ri = <<42, 3, 3, 17, 20, 2>>
    /\ Len(drawn.ch) = StreetLength
    /\ address.number = <<"4", "2">>
    /\ address.floor = <<"s", "t">>
    /\ address.door = <<"2", "0">>
    /\ address.postal_code = "8000"

C26_BirthDateTotal ==
    pc # "birth" =>
        /\ pc = "cpr"
        /\ Len(birth_date) = 10
        /\ birth_date[5] = "-" /\ birth_date[8] = "-"
        /\ \A k \in {1, 2, 3, 4, 6, 7, 9, 10} : IsDigit(birth_date[k])
        /\ StrToInt(SubSeq(birth_date, 1, 4)) = drawn.ri[1]
        /\ StrToInt(SubSeq(birth_date, 6, 7)) = drawn.ri[2]
        /\ StrToInt(SubSeq(birth_date, 9, 10)) = drawn.ri[3]

\* the earliest year with the last day the table allows in February
C26_Witness ==
    /\ pc = "cpr"
    /\ drawn.ri = <<MinYear, 2, 28>>
    /\ birth_date = <<"1", "9", "0", "0", "-", "0", "2", "-", "2", "8">>

\* C27: get_random_town never reads DB._town_count while it is None; over
\* a table of N >= 1 rows the count is N, the offset drawn lies in
\* [0, N - 1] and the lookup returns the row there; over an empty table the
\* count is 0 and the offset draw fails, so no row is returned.
C27_OffsetWithinTable ==
    /\ direct_db.pc # "type_error"
    /\ direct_db.pc = "returned" =>
          /\ Len(table) >= 1
          /\ town_count = Len(table)
          /\ direct_db.offset[1] \in 0..(Len(table) - 1)
          /\ direct_db.result = <<table[direct_db.offset[1] + 1]>>
    /\ direct_db.pc = "draw_failed" =>
          /\ Len(table) = 0
          /\ town_count = 0
          /\ direct_db.result = <<>>
    /\ town_calls = 1 =>
          /\ Len(table) >= 1
          /\ town_count = Len(table)
          /\ drawn.ri[Len(drawn.ri)] \in 0..(Len(table) - 1)
          /\ town_data = <<table[drawn.ri[Len(drawn.ri)] + 1]>>
          /\ pc = "phone"
    /\ Len(table) = 0 =>
          /\ direct_db.pc # "returned"
          /\ town_calls = 0
          /\ pc # "phone"

\* after a COUNT query that failed and one that succeeded, a caller drew the
\* offset of the last row of the towns and got it
C27_Witness ==
    /\ table = TownTable
    /\ count_queries = 2
    /\ direct_db.pc = "returned"
    /\ direct_db.offset = <<2>>
    /\ direct_db.result = <<TownTable[3]>>

\* a step that constructed a DB for a direct caller
DirectConstruction ==
    /\ pc' = pc
    /\ direct_db'.pc \in {"raised", "connected"}

\* C29: a DB construction that fails, at the connection or at the COUNT
\* query, leaves DB._town_count as it was, so None stays None; the count is
\* written only by a COUNT query that succeeded, and it is then the size of
\* the table; a construction that finds None sends the COUNT query again.
C29_FailureLeavesCountUnset ==
    [][/\ (DirectConstruction /\ direct_db'.pc = "raised") =>
             UNCHANGED <<town_count, count_writes>>
       /\ (DirectConstruction /\ direct_db'.pc = "connected"
              /\ town_count = NoCount) =>
             /\ count_queries' = count_queries + 1
             /\ town_count' = Len(table)
       /\ town_count' # town_count =>
             /\ town_count = NoCount
             /\ town_count' = Len(table)
             /\ count_queries' = count_queries + 1
             /\ count_writes' = count_writes + 1
       /\ count_writes' # count_writes => town_count' # town_count
       /\ town_count' = NoCount => count_writes' = 0
      ]_vars

\* the first construction failed at the COUNT query and the second fetched
\* the count
C29_Witness ==
    /\ direct_db.pc = "connected"
    /\ pc = "address"
    /\ count_queries = 2
    /\ count_writes = 1
    /\ town_count = Len(TownTable)
    /\ table = TownTable

\* the request just answered was served
Served == http_pc = "responded" /\ response[1].status = Ok

\* C28: a GET /person that is served had an n in [1, 100] and carries
\* exactly n records: one Person object for n = 1, a list of n Persons for
\* n from 2 to 100; the engine's clamp changes no count that came through
\* the HTTP layer.
C28_ServedCountIsRequestedCount ==
    Served =>
        /\ http_n >= 1 /\ http_n <= 100
        /\ Len(response[1].records) = http_n
        /\ http_n = 1 => response[1].kind = "object"
        /\ http_n >= 2 => response[1].kind = "array"
        /\ \A k \in 1..Len(response[1].records) :
              HasFixedKeys(response[1].records[k])

\* the largest n: a list of 100 Persons
C28_Witness ==
    /\ Served
    /\ http_n = MaxN
    /\ response[1].kind = "array"
    /\ Len(response[1].records) = 100

=============================================================================
